---- MODULE Spec2Model ----
(***************************************************************************)
(* IPLAnalyzer (ipl_analyzer.py): four tables read once from CSV files,    *)
(* then read-only queries over them: display_summary, top_performers,      *)
(* compare_players, generate_report.                                       *)
(*                                                                         *)
(* Conventions of the model                                                *)
(*  - a DataFrame is a sequence of rows (records); the position of a row   *)
(*    is its index label (read_csv gives a RangeIndex, here 1-based);      *)
(*  - an attribute of the analyzer that was never assigned is a table with *)
(*    set = FALSE; reading it raises AttributeError;                       *)
(*  - floats (Average, Strike_Rate, Economy, NRR) are scaled integers;     *)
(*  - out is what the call in progress has emitted: printed lines, the     *)
(*    chart shown, the file written;                                       *)
(*  - an exception nobody catches ends the process: pc = "crashed", exc    *)
(*    names it.                                                            *)
(***************************************************************************)
EXTENDS Integers, Sequences, FiniteSets, TLC

\* Bounds of the model.
MaxRows == 3
MaxTeams == 5

\* Program constants.
DefaultN == 10
HeadRows == 4
ReportTopN == 5

VARIABLES
    files,        \* the four CSV sources: files[s] = [status, rows]
    tieRank,      \* how this build's non-stable sort orders equal keys
    pc,           \* "start" | "ready" | "returned" | "crashed" | "exited"
    exc,          \* the uncaught exception, or "none"
    batting_df,   \* self.batting_df
    bowling_df,   \* self.bowling_df
    fielding_df,  \* self.fielding_df
    team_df,      \* self.team_df
    out           \* what the current call has emitted

vars == <<files, tieRank, pc, exc, batting_df, bowling_df, fielding_df, team_df, out>>
env == <<files, tieRank>>
tables == <<batting_df, bowling_df, fielding_df, team_df>>

(***************************************************************************)
(* The data.                                                               *)
(***************************************************************************)

\* The order load_data reads the sources in.
Sources == <<"batting", "bowling", "fielding", "team">>

Unset == [set |-> FALSE, rows |-> <<>>]

Frame(rows) == [set |-> TRUE, rows |-> rows]

\* A catalogue of players: two distinct players tie on each metric, and one
\* name occurs on two different rows.
PlayerIds == {1, 2, 3, 4}

PlayerName == <<"A", "B", "C", "A">>

PlayerTeam == <<"TeamX", "TeamY", "TeamX", "TeamZ">>

BattingRow(id) ==
    [Player |-> PlayerName[id], Team |-> PlayerTeam[id],
     Runs |-> <<50, 80, 80, 65>>[id],
     Average |-> 3000 + 100 * id,
     Strike_Rate |-> 15000 - 250 * id,
     Fours |-> 10 * id,
     Sixes |-> 20 - id]

BowlingRow(id) ==
    [Player |-> PlayerName[id], Team |-> PlayerTeam[id],
     Wickets |-> <<20, 20, 12, 25>>[id],
     Economy |-> 700 + 25 * id,
     Average |-> 2500 - 100 * id,
     Strike_Rate |-> 1500 + 50 * id]

FieldingRow(id) ==
    [Player |-> PlayerName[id], Team |-> PlayerTeam[id],
     Catches |-> <<9, 5, 9, 9>>[id],
     Matches |-> 10 + id]

TeamNames == <<"RCB", "PBKS", "MI", "GT", "DC", "SRH", "LSG", "KKR", "RR", "CSK">>

TeamRow(pos) ==
    [Position |-> pos, Team |-> TeamNames[pos],
     Points |-> 22 - 2 * pos,
     NRR |-> 250 * (3 - pos),
     Won |-> 11 - pos,
     Lost |-> 3 + pos]

\* Rosters: the players a file lists, in file order (a header-only file
\* lists none).
Rosters == UNION {[1..k -> PlayerIds] : k \in 0..MaxRows}

\* Standings files: the rows of positions 1..k in any order.
Standings == UNION {Permutations(1..k) : k \in 0..MaxTeams}

Statuses == {"present", "missing", "malformed"}

File(status, rows) ==
    [status |-> status, rows |-> IF status = "present" THEN rows ELSE <<>>]

DefaultRoster == <<1, 2, 3>>

DefaultStandings == <<1, 2, 3, 4, 5>>

FilesOf(st, roster, standing) ==
    [s \in {"batting", "bowling", "fielding", "team"} |->
        CASE s = "batting" -> File(st[s], [i \in 1..Len(roster) |-> BattingRow(roster[i])])
          [] s = "bowling" -> File(st[s], [i \in 1..Len(roster) |-> BowlingRow(roster[i])])
          [] s = "fielding" -> File(st[s], [i \in 1..Len(roster) |-> FieldingRow(roster[i])])
          [] OTHER -> File(st[s], [i \in 1..Len(standing) |-> TeamRow(standing[i])])]

AllPresent == [s \in {"batting", "bowling", "fielding", "team"} |-> "present"]

Identity == [i \in 1..MaxRows |-> i]

(***************************************************************************)
(* Initial states: the analyzer is not constructed yet; the environment    *)
(* (the files on disk, the sort of the build) is fixed.                    *)
(***************************************************************************)
InitProgram ==
    /\ pc = "start"
    /\ exc = "none"
    /\ batting_df = Unset
    /\ bowling_df = Unset
    /\ fielding_df = Unset
    /\ team_df = Unset
    /\ out = [op |-> "none"]

Init ==
    /\ InitProgram
    /\ \/ \E st \in [{"batting", "bowling", "fielding", "team"} -> Statuses] :
            /\ files = FilesOf(st, DefaultRoster, DefaultStandings)
            /\ tieRank = Identity
       \/ \E roster \in Rosters :
            /\ files = FilesOf(AllPresent, roster, DefaultStandings)
            /\ tieRank \in Permutations(1..MaxRows)
       \/ \E standing \in Standings :
            /\ files = FilesOf(AllPresent, DefaultRoster, standing)
            /\ tieRank = Identity

(***************************************************************************)
(* load_data and __init__.                                                 *)
(***************************************************************************)

\* pd.read_csv of source i: the file is there and parses.
ReadOk(i) == files[Sources[i]].status = "present"

\* A faulty variant of Assigned: each read in a try block of its own.
AssignedAlone(i) == ReadOk(i)

\* The assignment of source i's attribute is reached and done: every read
\* before it, and its own, succeeded (the try block stops at the first
\* exception).
Assigned(i) == \A j \in 1..i : ReadOk(j)

\* The first source whose read raises (5: none does).
FirstFailure ==
    IF \E i \in 1..4 : ~ReadOk(i)
    THEN CHOOSE i \in 1..4 : ~ReadOk(i) /\ \A j \in 1..(i - 1) : ReadOk(j)
    ELSE 5

LoadedFrame(i) ==
    IF Assigned(i) THEN Frame(files[Sources[i]].rows) ELSE Unset

\* What load_data prints, and the exception that leaves it, if any:
\* FileNotFoundError is caught; the EmptyDataError / ParserError of a file
\* pandas cannot parse is not.
LoadOutcome ==
    LET k == FirstFailure IN
    IF k = 5 THEN [lines |-> <<"loaded_ok">>, raised |-> "none"]
    ELSE IF files[Sources[k]].status = "missing"
         THEN [lines |-> <<"load_error", "load_hint">>, raised |-> "none"]
         ELSE [lines |-> <<>>, raised |-> "EmptyDataError"]

\* __init__ after load_data returned: the banner, then len() of the four
\* attributes (lines 32 and 33).
InitOutcome ==
    LET l == LoadOutcome IN
    IF l.raised # "none" THEN l
    ELSE IF ~(Assigned(1) /\ Assigned(2))
         THEN [lines |-> l.lines \o <<"initialized">>, raised |-> "AttributeError"]
    ELSE IF ~(Assigned(3) /\ Assigned(4))
         THEN [lines |-> l.lines \o <<"initialized", "counts_batting_bowling">>,
               raised |-> "AttributeError"]
    ELSE [lines |-> l.lines \o <<"initialized", "counts_batting_bowling",
                                 "counts_fielding_team">>,
          raised |-> "none"]

\* analyzer = IPLAnalyzer()
Construct ==
    /\ pc = "start"
    /\ batting_df' = LoadedFrame(1)
    /\ bowling_df' = LoadedFrame(2)
    /\ fielding_df' = LoadedFrame(3)
    /\ team_df' = LoadedFrame(4)
    /\ out' = [op |-> "init", lines |-> InitOutcome.lines]
    /\ exc' = InitOutcome.raised
    /\ pc' = IF InitOutcome.raised = "none" THEN "ready" ELSE "crashed"
    /\ UNCHANGED env

(***************************************************************************)
(* pandas and numpy operations the queries use.                            *)
(***************************************************************************)

Indices(rows) == [i \in 1..Len(rows) |-> i]

Column(rows, col) == [i \in 1..Len(rows) |-> rows[i][col]]

\* Series.idxmax: the label of the first occurrence of the maximum, found
\* by a left-to-right scan that replaces the best only by a strictly larger
\* value. The caller guarantees a non-empty column (idxmax of an empty one
\* raises ValueError).
RECURSIVE ArgMaxScan(_, _, _)
ArgMaxScan(column, i, best) ==
    IF i > Len(column) THEN best
    ELSE ArgMaxScan(column, i + 1, IF column[i] > column[best] THEN i ELSE best)

\* A faulty variant of IdxMax: the last occurrence of the maximum.
IdxMaxLast(rows, col) ==
    LET column == Column(rows, col) IN
    CHOOSE i \in 1..Len(column) :
        /\ \A j \in 1..Len(column) : column[j] <= column[i]
        /\ \A j \in (i + 1)..Len(column) : column[j] < column[i]

IdxMax(rows, col) == ArgMaxScan(Column(rows, col), 2, 1)

\* Insertion of label i into a sequence sorted by (key descending, tie
\* ascending).
InsertDesc(s, i, key, tie) ==
    LET Precedes(e) == key[e] > key[i] \/ (key[e] = key[i] /\ tie[e] < tie[i])
    IN  SelectSeq(s, Precedes) \o <<i>> \o SelectSeq(s, LAMBDA e : ~Precedes(e))

RECURSIVE SortDesc(_, _, _)
SortDesc(labels, key, tie) ==
    IF labels = <<>> THEN <<>>
    ELSE InsertDesc(SortDesc(Tail(labels), key, tie), Head(labels), key, tie)

\* A faulty variant of StableArgsortDesc: equal keys in reverse order (keep="last").
ArgsortDescTiesReversed(labels, key) ==
    SortDesc(labels, key, [i \in 1..Len(key) |-> 0 - i])

\* argsort(kind="mergesort") of the negated column: descending, equal keys in
\* their original order.
StableArgsortDesc(labels, key) == SortDesc(labels, key, Indices(key))

\* Series.sort_values(ascending=False) with the default kind="quicksort":
\* descending, and equal keys in the order this build's sort leaves them
\* (numpy's quicksort is not stable; pandas documents only mergesort and
\* stable as stable).
SortValuesDescending(key) == SortDesc(Indices(key), key, tieRank)

\* kth_smallest of the negated column: the n-th largest value, 1 <= n <= len.
KthLargest(key, n) ==
    CHOOSE v \in {key[i] : i \in 1..Len(key)} :
        /\ Cardinality({i \in 1..Len(key) : key[i] > v}) < n
        /\ Cardinality({i \in 1..Len(key) : key[i] >= v}) >= n

Take(s, n) == SubSeq(s, 1, IF n < Len(s) THEN n ELSE Len(s))

\* DataFrame.nlargest(n, col) with keep="first", as the labels of the rows of
\* the result in order (pandas.core.methods.selectn.SelectNSeries.compute):
\* nothing for n <= 0; the whole column through sort_values when n >= len
\* ("slow method"); otherwise the rows not below the n-th largest value,
\* stably sorted, cut to n.
NLargest(rows, n, col) ==
    LET key == Column(rows, col) IN
    IF n <= 0 THEN <<>>
    ELSE IF n >= Len(rows) THEN Take(SortValuesDescending(key), n)
    ELSE LET kth == KthLargest(key, n)
             ns == SelectSeq(Indices(key), LAMBDA i : key[i] >= kth)
         IN  Take(StableArgsortDesc(ns, key), n)

\* A faulty variant of ReceiverAfterNLargest: the frame sorted in place
\* (sort_values(inplace=True) followed by head).
ReceiverSortedInPlace(df, n, col) ==
    LET order == SortDesc(Indices(df.rows), Column(df.rows, col), Indices(df.rows))
    IN  Frame([k \in 1..Len(order) |-> df.rows[order[k]]])

\* The receiver of nlargest after the call: nlargest builds a new frame.
ReceiverAfterNLargest(df, n, col) == df

\* The receiver of head / iterrows / boolean indexing after the call.
ReceiverAfterRead(df) == df

Rows(rows, labels) == [k \in 1..Len(labels) |-> rows[labels[k]]]

Project(row, cols) == [c \in cols |-> row[c]]

ProjectAll(rows, cols) == [k \in 1..Len(rows) |-> Project(rows[k], cols)]

\* str.lower() on the category strings the callers pass.
Categories == {"batting", "bowling", "fielding", "BOWLING", "keeping"}

Lower(s) == IF s = "BOWLING" THEN "bowling" ELSE s

Names == {"A", "B", "Z"}

NValues == 0..(MaxRows + 1) \cup {DefaultN}

(***************************************************************************)
(* The queries. after is where control is once the call has returned.      *)
(***************************************************************************)

Raise(e) ==
    /\ exc' = e
    /\ pc' = "crashed"

Return(after) ==
    /\ exc' = "none"
    /\ pc' = after

Finish(raised, after) == IF raised = "none" THEN Return(after) ELSE Raise(raised)

\* The three award rows of lines 59-61 / 296-298, as far as the evaluation
\* gets, and the exception that stops it: a missing attribute raises
\* AttributeError, idxmax of an empty column ValueError.
Award(df, col) == LET i == IdxMax(df.rows, col) IN [label |-> i, row |-> df.rows[i]]

AwardRaises(df) ==
    IF ~df.set THEN "AttributeError"
    ELSE IF df.rows = <<>> THEN "ValueError"
    ELSE "none"

Awards ==
    IF AwardRaises(batting_df) # "none"
        THEN [rows |-> <<>>, raised |-> AwardRaises(batting_df)]
    ELSE IF AwardRaises(bowling_df) # "none"
        THEN [rows |-> <<>>, raised |-> AwardRaises(bowling_df)]
    ELSE IF AwardRaises(fielding_df) # "none"
        THEN [rows |-> <<>>, raised |-> AwardRaises(fielding_df)]
    ELSE [rows |-> <<Award(batting_df, "Runs"), Award(bowling_df, "Wickets"),
                     Award(fielding_df, "Catches")>>,
          raised |-> "none"]

\* self.team_df.head(4): the first four rows in the frame's order.
Top4(rows) == Take(rows, HeadRows)

\* display_summary
SummaryOutcome ==
    LET a == Awards IN
    IF a.raised # "none"
        THEN [awards |-> <<>>, top_4 |-> <<>>, raised |-> a.raised]
    ELSE IF ~team_df.set
        THEN [awards |-> a.rows, top_4 |-> <<>>, raised |-> "AttributeError"]
    ELSE [awards |-> a.rows,
          top_4 |-> ProjectAll(Top4(team_df.rows), {"Position", "Team", "Points", "NRR"}),
          raised |-> "none"]

DisplaySummary(after) ==
    /\ pc = "ready"
    /\ out' = [op |-> "display_summary", awards |-> SummaryOutcome.awards,
               top_4 |-> SummaryOutcome.top_4]
    /\ Finish(SummaryOutcome.raised, after)
    /\ team_df' = ReceiverAfterRead(team_df)
    /\ UNCHANGED <<env, batting_df, bowling_df, fielding_df>>

\* top_performers: the table, metric and printed columns of each branch.
TopBranch(c) ==
    CASE c = "batting" ->
            [known |-> TRUE, df |-> batting_df, col |-> "Runs",
             cols |-> {"Player", "Team", "Runs", "Average", "Strike_Rate"}]
      [] c = "bowling" ->
            [known |-> TRUE, df |-> bowling_df, col |-> "Wickets",
             cols |-> {"Player", "Team", "Wickets", "Economy", "Average"}]
      [] c = "fielding" ->
            [known |-> TRUE, df |-> fielding_df, col |-> "Catches",
             cols |-> {"Player", "Team", "Catches", "Matches"}]
      [] OTHER -> [known |-> FALSE, df |-> Unset, col |-> "", cols |-> {}]

\* What top_performers prints after its two header lines: nothing when no
\* branch matches (there is no else), else the table of the branch.
TopOutcome(category, n) ==
    LET b == TopBranch(Lower(category)) IN
    IF ~b.known
        THEN [table |-> FALSE, labels |-> <<>>, rows |-> <<>>, diag |-> "none",
              raised |-> "none"]
    ELSE IF ~b.df.set
        THEN [table |-> FALSE, labels |-> <<>>, rows |-> <<>>, diag |-> "none",
              raised |-> "AttributeError"]
    ELSE LET top == NLargest(b.df.rows, n, b.col) IN
         [table |-> TRUE, labels |-> top,
          rows |-> ProjectAll(Rows(b.df.rows, top), b.cols),
          diag |-> "none", raised |-> "none"]

TopPerformers(after, category, n) ==
    /\ pc = "ready"
    /\ LET t == TopOutcome(category, n) IN
        /\ out' = [op |-> "top_performers", category |-> category, n |-> n,
                   header |-> TRUE, table |-> t.table, labels |-> t.labels,
                   rows |-> t.rows, diag |-> t.diag]
        /\ Finish(t.raised, after)
    /\ batting_df' = IF Lower(category) = "batting" /\ batting_df.set
                     THEN ReceiverAfterNLargest(batting_df, n, "Runs") ELSE batting_df
    /\ bowling_df' = IF Lower(category) = "bowling" /\ bowling_df.set
                     THEN ReceiverAfterNLargest(bowling_df, n, "Wickets") ELSE bowling_df
    /\ fielding_df' = IF Lower(category) = "fielding" /\ fielding_df.set
                      THEN ReceiverAfterNLargest(fielding_df, n, "Catches") ELSE fielding_df
    /\ UNCHANGED <<env, team_df>>

\* compare_players: the table and the metric list of each branch.
CompareBranch(c) ==
    CASE c = "batting" ->
            [known |-> TRUE, df |-> batting_df,
             metrics |-> <<"Runs", "Average", "Strike_Rate", "Fours", "Sixes">>]
      [] c = "bowling" ->
            [known |-> TRUE, df |-> bowling_df,
             metrics |-> <<"Wickets", "Economy", "Average", "Strike_Rate">>]
      [] OTHER -> [known |-> FALSE, df |-> Unset, metrics |-> <<>>]

\* df['Player'] == name
NameMatches(cell, name) == cell = name

\* df[df['Player'] == name]: the labels of the matching rows, in order.
Matching(rows, name) ==
    SelectSeq(Indices(rows), LAMBDA i : NameMatches(rows[i].Player, name))

\* .iloc[0] of the selection for player1 and for player2 (0: the selection
\* is empty and iloc raises IndexError).
Player1Label(rows, name) ==
    LET m == Matching(rows, name) IN IF m = <<>> THEN 0 ELSE m[1]

\* A faulty variant of Player2Label: .iloc[-1], the last matching row.
LastMatchLabel(rows, name) ==
    LET m == Matching(rows, name) IN IF m = <<>> THEN 0 ELSE m[Len(m)]

Player2Label(rows, name) ==
    LET m == Matching(rows, name) IN IF m = <<>> THEN 0 ELSE m[1]

\* A faulty variant of LookupFails: only the first lookup is guarded.
LookupFailsFirstOnly(rows, player1, player2) == Player1Label(rows, player1) = 0

\* The try block of lines 243-248: IndexError from either lookup.
LookupFails(rows, player1, player2) ==
    Player1Label(rows, player1) = 0 \/ Player2Label(rows, player2) = 0

NoRow == [Player |-> "", Team |-> ""]

RowAt(rows, label) == IF label \in 1..Len(rows) THEN rows[label] ELSE NoRow

Values(row, metrics) ==
    [k \in 1..Len(metrics) |->
        IF metrics[k] \in DOMAIN row THEN row[metrics[k]] ELSE -1]

NoChart == [shown |-> FALSE]

CompareOutcome(player1, player2, category) ==
    LET b == CompareBranch(Lower(category)) IN
    IF ~b.known
        THEN [lines |-> <<"category_must_be">>, chart |-> NoChart, raised |-> "none"]
    ELSE IF ~b.df.set
        THEN [lines |-> <<>>, chart |-> NoChart, raised |-> "AttributeError"]
    ELSE IF LookupFails(b.df.rows, player1, player2)
        THEN [lines |-> <<"players_not_found">>, chart |-> NoChart, raised |-> "none"]
    ELSE LET l1 == Player1Label(b.df.rows, player1)
             l2 == Player2Label(b.df.rows, player2)
             p1_data == RowAt(b.df.rows, l1)
             p2_data == RowAt(b.df.rows, l2)
         IN  [lines |-> <<>>,
              chart |-> [shown |-> TRUE, metrics |-> b.metrics,
                         label1 |-> l1, label2 |-> l2,
                         legend1 |-> <<player1, p1_data.Team>>,
                         legend2 |-> <<player2, p2_data.Team>>,
                         p1_values |-> Values(p1_data, b.metrics),
                         p2_values |-> Values(p2_data, b.metrics)],
              raised |-> "none"]

ComparePlayers(after, player1, player2, category) ==
    /\ pc = "ready"
    /\ LET c == CompareOutcome(player1, player2, category) IN
        /\ out' = [op |-> "compare_players", player1 |-> player1,
                   player2 |-> player2, category |-> category,
                   lines |-> c.lines, chart |-> c.chart]
        /\ Finish(c.raised, after)
    /\ batting_df' = IF Lower(category) = "batting"
                     THEN ReceiverAfterRead(batting_df) ELSE batting_df
    /\ bowling_df' = IF Lower(category) = "bowling"
                     THEN ReceiverAfterRead(bowling_df) ELSE bowling_df
    /\ UNCHANGED <<env, fielding_df, team_df>>

\* generate_report: open(filename, 'w') truncates the file, the title and
\* the tournament summary are written, and then the sections in order; an
\* exception leaves the file with what was written before it. The
\* "Generated on" line holds the wall clock and is left out.
ReportTeams(rows) ==
    ProjectAll(rows, {"Position", "Team", "Points", "Won", "Lost", "NRR"})

ReportTop(df, col, cols) ==
    ProjectAll(Rows(df.rows, NLargest(df.rows, ReportTopN, col)), cols)

ReportOutcome ==
    LET a == Awards IN
    IF a.raised # "none"
        THEN [file |-> [awards |-> <<>>, teams |-> <<>>, top_batsmen |-> <<>>,
                        top_bowlers |-> <<>>, complete |-> FALSE],
              raised |-> a.raised]
    ELSE IF ~team_df.set
        THEN [file |-> [awards |-> a.rows, teams |-> <<>>, top_batsmen |-> <<>>,
                        top_bowlers |-> <<>>, complete |-> FALSE],
              raised |-> "AttributeError"]
    ELSE [file |-> [awards |-> a.rows,
                    teams |-> ReportTeams(team_df.rows),
                    top_batsmen |-> ReportTop(batting_df, "Runs",
                        {"Player", "Team", "Runs", "Average", "Strike_Rate"}),
                    top_bowlers |-> ReportTop(bowling_df, "Wickets",
                        {"Player", "Team", "Wickets", "Average", "Economy"}),
                    complete |-> TRUE],
          raised |-> "none"]

GenerateReport(after) ==
    /\ pc = "ready"
    /\ out' = [op |-> "generate_report", file |-> ReportOutcome.file,
               lines |-> IF ReportOutcome.raised = "none"
                         THEN <<"report_generated">> ELSE <<>>]
    /\ Finish(ReportOutcome.raised, after)
    /\ batting_df' = IF batting_df.set
                     THEN ReceiverAfterNLargest(batting_df, ReportTopN, "Runs")
                     ELSE batting_df
    /\ bowling_df' = IF bowling_df.set
                     THEN ReceiverAfterNLargest(bowling_df, ReportTopN, "Wickets")
                     ELSE bowling_df
    /\ team_df' = ReceiverAfterRead(team_df)
    /\ UNCHANGED <<env, fielding_df>>

(***************************************************************************)
(* The callers.                                                            *)
(***************************************************************************)

\* main's loop (lines 339-380): one call per iteration, then back to the
\* menu, which starts a new block of output.
MenuSummary == DisplaySummary("returned")

MenuTopPerformers == \E c \in Categories, n \in NValues : TopPerformers("returned", c, n)

MenuComparePlayers ==
    \E c \in Categories, p1 \in Names, p2 \in Names : ComparePlayers("returned", p1, p2, c)

MenuReport == GenerateReport("returned")

InvalidChoice ==
    /\ pc = "ready"
    /\ out' = [op |-> "invalid_choice", lines |-> <<"invalid_choice">>]
    /\ Return("returned")
    /\ UNCHANGED <<env, tables>>

LoopBack ==
    /\ pc = "returned"
    /\ pc' = "ready"
    /\ out' = [op |-> "menu"]
    /\ UNCHANGED <<env, exc, tables>>

Exit ==
    /\ pc = "ready"
    /\ pc' = "exited"
    /\ out' = [op |-> "exit", lines |-> <<"thank_you">>]
    /\ UNCHANGED <<env, exc, tables>>

Next ==
    \/ Construct
    \/ MenuSummary
    \/ MenuTopPerformers
    \/ MenuComparePlayers
    \/ MenuReport
    \/ InvalidChoice
    \/ LoopBack
    \/ Exit

Spec == Init /\ [][Next]_vars

\* A script (example_usage.py): calls one after the other on the same
\* analyzer, each adding its output after the previous call's.
ScriptSummary == DisplaySummary("ready")

ScriptTopPerformers ==
    \E c \in Categories, n \in {2, DefaultN} : TopPerformers("ready", c, n)

ScriptComparePlayers ==
    \E c \in {"batting", "BOWLING", "keeping"}, p1 \in Names, p2 \in Names :
        ComparePlayers("ready", p1, p2, c)

ScriptReport == GenerateReport("ready")

InitScript ==
    /\ InitProgram
    /\ \E roster \in Rosters :
        /\ files = FilesOf(AllPresent, roster, DefaultStandings)
        /\ tieRank \in {Identity, [i \in 1..MaxRows |-> MaxRows + 1 - i]}

NextScript ==
    \/ Construct
    \/ ScriptSummary
    \/ ScriptTopPerformers
    \/ ScriptComparePlayers
    \/ ScriptReport

SpecScript == InitScript /\ [][NextScript]_vars

(***************************************************************************)
(* Properties.                                                             *)
(***************************************************************************)

Min(a, b) == IF a < b THEN a ELSE b

Range(s) == {s[k] : k \in 1..Len(s)}

\* The table and the metric a category string selects.
CategoryTable(category) ==
    CASE Lower(category) = "batting" -> batting_df
      [] Lower(category) = "bowling" -> bowling_df
      [] Lower(category) = "fielding" -> fielding_df
      [] OTHER -> Unset

CategoryMetric(category) ==
    CASE Lower(category) = "batting" -> "Runs"
      [] Lower(category) = "bowling" -> "Wickets"
      [] Lower(category) = "fielding" -> "Catches"
      [] OTHER -> ""

CategoryColumns(category) ==
    CASE Lower(category) = "batting" -> {"Player", "Team", "Runs", "Average", "Strike_Rate"}
      [] Lower(category) = "bowling" -> {"Player", "Team", "Wickets", "Economy", "Average"}
      [] Lower(category) = "fielding" -> {"Player", "Team", "Catches", "Matches"}
      [] OTHER -> {}

RankingShown == out.op = "top_performers" /\ out.table

\* labels are min(n, len) distinct rows of the table, printed as they are.
IsSelection(labels, rows, n) ==
    /\ Len(labels) = Min(IF n < 0 THEN 0 ELSE n, Len(rows))
    /\ Range(labels) \subseteq 1..Len(rows)
    /\ \A k, l \in 1..Len(labels) : k # l => labels[k] # labels[l]

\* No row left out beats a row taken: it has a smaller metric, or the same
\* metric and a later place in the file.
TakesTheTop(labels, key) ==
    \A i \in (1..Len(key)) \ Range(labels) : \A j \in Range(labels) :
        key[j] > key[i] \/ (key[j] = key[i] /\ j < i)

NonIncreasing(labels, key) ==
    \A k \in 1..(Len(labels) - 1) : key[labels[k]] >= key[labels[k + 1]]

\* Rows of equal metric are in file order (two rows equal in every column
\* are one row as far as any output shows).
TiesInFileOrder(labels, rows, key) ==
    \A k, l \in 1..Len(labels) :
        (k < l /\ key[labels[k]] = key[labels[l]]) =>
            (labels[k] < labels[l] \/ rows[labels[k]] = rows[labels[l]])

IsFirstMax(label, key) ==
    /\ label \in 1..Len(key)
    /\ \A j \in 1..Len(key) : key[j] <= key[label]
    /\ \A j \in 1..(label - 1) : key[j] < key[label]

IsAwardOf(award, df, col) ==
    /\ IsFirstMax(award.label, Column(df.rows, col))
    /\ award.row = df.rows[award.label]

AwardsEmitted ==
    IF out.op = "display_summary" THEN out.awards
    ELSE IF out.op = "generate_report" THEN out.file.awards
    ELSE <<>>

\* C2: each award row of display_summary and of generate_report holds the
\* maximum Runs / Wickets / Catches of its table and is the first row that
\* does.
C2_AwardsAreFirstMaxima ==
    /\ AwardsEmitted # <<>> =>
        /\ Len(AwardsEmitted) = 3
        /\ IsAwardOf(AwardsEmitted[1], batting_df, "Runs")
        /\ IsAwardOf(AwardsEmitted[2], bowling_df, "Wickets")
        /\ IsAwardOf(AwardsEmitted[3], fielding_df, "Catches")
    /\ (out.op \in {"display_summary", "generate_report"} /\ batting_df.rows # <<>>
            /\ pc # "crashed") => AwardsEmitted # <<>>

\* C2, reached: a tie for the maximum that is not on the first row.
C2_Witness ==
    /\ out.op = "generate_report"
    /\ Column(batting_df.rows, "Runs") = <<50, 80, 80>>
    /\ AwardsEmitted[1].label = 2
    /\ AwardsEmitted[2].label = 1

\* rows are the rows of the table with the count smallest positions, in
\* ascending order of Position.
IsStandingsTop(emitted, rows, count, cols) ==
    /\ Len(emitted) = Min(count, Len(rows))
    /\ \A k \in 1..(Len(emitted) - 1) : emitted[k].Position < emitted[k + 1].Position
    /\ \A k \in 1..Len(emitted) : \E i \in 1..Len(rows) : emitted[k] = Project(rows[i], cols)
    /\ \A i \in 1..Len(rows) :
        (\A k \in 1..Len(emitted) : emitted[k].Position # rows[i].Position) =>
            \A k \in 1..Len(emitted) : emitted[k].Position < rows[i].Position

\* C3: whatever the order of the rows in the team file, display_summary
\* prints the 4 rows of smallest Position in ascending order and
\* generate_report writes all rows in ascending order of Position.
C3_StandingsInPositionOrder ==
    /\ (out.op = "display_summary" /\ pc # "crashed") =>
        IsStandingsTop(out.top_4, team_df.rows, HeadRows,
                       {"Position", "Team", "Points", "NRR"})
    /\ (out.op = "generate_report" /\ out.file.complete) =>
        IsStandingsTop(out.file.teams, team_df.rows, Len(team_df.rows),
                       {"Position", "Team", "Points", "Won", "Lost", "NRR"})

OnlyFieldingMissing ==
    /\ files["batting"].status = "present"
    /\ files["bowling"].status = "present"
    /\ files["fielding"].status = "missing"
    /\ files["team"].status = "present"

\* C4: started with only the fielding file missing, the analyzer reports the
\* load error, stays usable, and top_performers('fielding', n) then prints
\* an empty result and raises nothing.
C4_MissingFieldingIsSurvived ==
    (OnlyFieldingMissing /\ pc # "start") =>
        /\ pc # "crashed"
        /\ exc = "none"
        /\ out.op = "init" => \E k \in 1..Len(out.lines) : out.lines[k] = "load_error"
        /\ (out.op = "top_performers" /\ Lower(out.category) = "fielding") =>
                out.rows = <<>>

\* C5: whatever the files hold and whatever is called, no exception ends the
\* process.
C5_NoUncaughtException == pc # "crashed" /\ exc = "none"

HasPlayer(rows, name) == \E i \in 1..Len(rows) : rows[i].Player = name

IsFirstNamed(label, rows, name) ==
    /\ label \in 1..Len(rows)
    /\ rows[label].Player = name
    /\ \A j \in 1..(label - 1) : rows[j].Player # name

ComparisonOf(category) == Lower(category) \in {"batting", "bowling"}

\* C6: for batting and bowling, compare_players with a name that has no
\* exactly equal Player cell (the first, the second or both) prints the
\* not-found diagnostic, returns without a chart or a file and without an
\* exception; a chart is shown only when both names match, and then for
\* the first matching row of each.
C6_NotFoundAborts ==
    (out.op = "compare_players" /\ ComparisonOf(out.category)) =>
        LET rows == CategoryTable(out.category).rows IN
        /\ exc = "none"
        /\ (~HasPlayer(rows, out.player1) \/ ~HasPlayer(rows, out.player2)) =>
                (out.lines = <<"players_not_found">> /\ ~out.chart.shown)
        /\ out.chart.shown =>
                /\ IsFirstNamed(out.chart.label1, rows, out.player1)
                /\ IsFirstNamed(out.chart.label2, rows, out.player2)
                /\ out.lines = <<>>

\* C6, reached: the second name is the absent one.
C6_Witness ==
    /\ out.op = "compare_players"
    /\ out.category = "batting"
    /\ out.player1 = "B"
    /\ out.player2 = "Z"
    /\ HasPlayer(batting_df.rows, "B")
    /\ out.lines = <<"players_not_found">>
    /\ ~out.chart.shown

\* C7: top_performers with a category string that is none of batting,
\* bowling, fielding (here: none of them in any letter case either, which is
\* how the code compares) prints no ranking, reports InvalidCategory, and
\* raises nothing.
C7_UnknownCategoryIsReported ==
    (out.op = "top_performers"
        /\ Lower(out.category) \notin {"batting", "bowling", "fielding"}) =>
        /\ ~out.table
        /\ out.rows = <<>>
        /\ out.diag = "InvalidCategory"
        /\ exc = "none"

Swapped(a, b) ==
    /\ b.shown
    /\ b.metrics = a.metrics
    /\ b.label1 = a.label2
    /\ b.label2 = a.label1
    /\ b.legend1 = a.legend2
    /\ b.legend2 = a.legend1
    /\ b.p1_values = a.p2_values
    /\ b.p2_values = a.p1_values

\* C8: when compare_players(a, b, category) has shown a chart, the call
\* compare_players(b, a, category) shows the same two rows and the same
\* metrics and values with the two sides exchanged, duplicate names or not.
C8_SwapExchangesSides ==
    [][(/\ out.op = "compare_players"
        /\ out.chart.shown
        /\ out'.op = "compare_players"
        /\ out'.player1 = out.player2
        /\ out'.player2 = out.player1
        /\ out'.category = out.category)
       => Swapped(out.chart, out'.chart)]_vars

\* C8, reached: a chart for two different names, one of them on two rows
\* of the table.
C8_Witness ==
    /\ out.op = "compare_players"
    /\ out.chart.shown
    /\ out.player1 = "B"
    /\ out.player2 = "A"
    /\ out.category = "batting"
    /\ Cardinality({i \in 1..Len(batting_df.rows) : batting_df.rows[i].Player = "A"}) = 2
    /\ out.chart.label2 = 1

SameCall(a, b) ==
    /\ a.op = b.op
    /\ a.op = "top_performers" => (a.category = b.category /\ a.n = b.n)
    /\ a.op = "compare_players" =>
        (a.category = b.category /\ a.player1 = b.player1 /\ a.player2 = b.player2)

\* C9: once loaded, no call changes the contents or the row order of any of
\* the four tables, and a call repeated gives the result it gave before.
C9_TablesAreReadOnly ==
    [][pc = "ready" =>
        /\ tables' = tables
        /\ SameCall(out, out') => out' = out]_vars

\* C9, reached: a ranking has been printed from a table that is not in
\* ranking order.
C9_Witness ==
    /\ pc = "ready"
    /\ out.op = "top_performers"
    /\ out.category = "batting"
    /\ out.labels = <<2, 3, 1>>
    /\ Column(batting_df.rows, "Runs") = <<50, 80, 80>>

TableOfSource(i) ==
    CASE i = 1 -> batting_df
      [] i = 2 -> bowling_df
      [] i = 3 -> fielding_df
      [] OTHER -> team_df

\* C10: after load the tables that are set are a prefix of batting, bowling,
\* fielding, team: those before the first source that is missing are set
\* and hold their file's rows, that source's table and all later ones are
\* unset; the success message is printed only when all four are set.
C10_LoadedTablesAreAPrefix ==
    pc # "start" =>
        /\ \A i \in 1..4 : TableOfSource(i).set =>
                /\ \A j \in 1..i : TableOfSource(j).set
                /\ files[Sources[i]].status = "present"
                /\ TableOfSource(i).rows = files[Sources[i]].rows
        /\ \A i \in 1..4 : files[Sources[i]].status # "present" =>
                \A j \in i..4 : ~TableOfSource(j).set
        /\ \A i \in 1..4 : (\A j \in 1..i : files[Sources[j]].status = "present") =>
                TableOfSource(i).set
        /\ (out.op = "init" /\ \E k \in 1..Len(out.lines) : out.lines[k] = "loaded_ok") =>
                \A i \in 1..4 : TableOfSource(i).set

\* C10, reached: the team file exists, but the fielding file before it does
\* not.
C10_Witness ==
    /\ pc # "start"
    /\ files["fielding"].status = "missing"
    /\ files["team"].status = "present"
    /\ batting_df.set
    /\ bowling_df.set
    /\ ~fielding_df.set
    /\ ~team_df.set
====
